---- MODULE Spec2Model ----
(***************************************************************************)
(* Model of the crossword generator of the Wordds app                      *)
(* (mobile/src/utils/crosswordGenerator.ts).                               *)
(*                                                                         *)
(* A run of generateCrossword is a sequence of steps: Normalize (input     *)
(* checks and normalization), PlaceAnchor (sort, grid allocation, anchor), *)
(* then for each remaining word one Attempt per pass of the retry loop     *)
(* followed by PlaceOrDrop, and finally Finish (threshold, compaction,     *)
(* clue numbering, return).                                                *)
(*                                                                         *)
(* Strings are sequences of one-character strings, indexed from 1; the     *)
(* code's 0-based index i is position i + 1 here.  Rows and columns keep   *)
(* the code's 0-based numbering.                                           *)
(***************************************************************************)
EXTENDS Integers, Sequences, FiniteSets, TLC

VARIABLES wordInputs, maxAttempts, minIntersections, gridPadding,
          pc, normalizedWords, sortedWords, grid, placedWords,
          i, attempts, bestPlacement, result, errorLog

\* The analytics store (mobile/src/store/useAnalyticsStore.ts): the pending
\* events of the store, the batches of the insert calls that have not
\* completed, the rows of the analytics_events table, the setTimeout
\* callbacks not yet run and the number of events created so far.  An event
\* object is modelled by the number of its creation.
VARIABLES events, inFlight, inserted, timeouts, tracked

storeVars == <<events, inFlight, inserted, timeouts, tracked>>

vars == <<wordInputs, maxAttempts, minIntersections, gridPadding,
          pc, normalizedWords, sortedWords, grid, placedWords,
          i, attempts, bestPlacement, result, errorLog, storeVars>>

\* the store as created, before any event is tracked
StoreCreated ==
    /\ events = <<>>
    /\ inFlight = <<>>
    /\ inserted = <<>>
    /\ timeouts = 0
    /\ tracked = 0

(***************************************************************************)
(* Bounds of the model                                                     *)
(***************************************************************************)
MaxWords == 3

MaxAttemptsBound == 2

\* lines 58-60: the defaults of the options
DefaultMaxAttempts == 50

DefaultMinIntersections == 1

DefaultGridPadding == 2

(***************************************************************************)
(* Characters and strings                                                  *)
(***************************************************************************)
LowerLetters == <<"a","b","c","d","e","f","g","h","i","j","k","l","m",
                  "n","o","p","q","r","s","t","u","v","w","x","y","z">>

UpperLetters == <<"A","B","C","D","E","F","G","H","I","J","K","L","M",
                  "N","O","P","Q","R","S","T","U","V","W","X","Y","Z">>

Range(s) == {s[k] : k \in DOMAIN s}

Min(a, b) == IF a < b THEN a ELSE b

Max(a, b) == IF a > b THEN a ELSE b

Abs(a) == IF a < 0 THEN -a ELSE a

\* String.prototype.toUpperCase on one character
UpperChar(ch) ==
    IF ch \in Range(LowerLetters)
    THEN UpperLetters[CHOOSE k \in DOMAIN LowerLetters : LowerLetters[k] = ch]
    ELSE ch

toUpperCase(s) == [k \in DOMAIN s |-> UpperChar(s[k])]

IsSpace(ch) == ch = " "

\* String.prototype.trim: drops the leading and the trailing whitespace
trim(s) ==
    LET keep == {k \in DOMAIN s : ~IsSpace(s[k])}
    IN  IF keep = {} THEN <<>>
        ELSE LET lo == CHOOSE k \in keep : \A m \in keep : k <= m
                 hi == CHOOSE k \in keep : \A m \in keep : k >= m
             IN  SubSeq(s, lo, hi)

\* /^[A-Z]+$/.test(s)
IsUpperAlpha(s) == Len(s) >= 1 /\ \A k \in DOMAIN s : s[k] \in Range(UpperLetters)

\* the map with the trim of the word forgotten
NormalizeOne_NoTrim(w) == [word |-> toUpperCase(w.word), clue |-> trim(w.clue)]

\* wordInputs.map(...).filter(...)
NormalizeOne(w) == [word |-> trim(toUpperCase(w.word)), clue |-> trim(w.clue)]

\* the filter with the minimum length forgotten
IsValidWord_NoMinLength(w) == IsUpperAlpha(w.word)

IsValidWord(w) == Len(w.word) >= 2 /\ IsUpperAlpha(w.word)

Normalized(ws) ==
    SelectSeq([k \in DOMAIN ws |-> NormalizeOne(ws[k])], IsValidWord)

\* a sort by length that puts a later word before earlier words of its length
RECURSIVE SortByLength_TiesReversed(_)
SortByLength_TiesReversed(ws) ==
    IF Len(ws) <= 1 THEN ws
    ELSE LET n    == Len(ws)
             rest == SortByLength_TiesReversed(SubSeq(ws, 1, n - 1))
             x    == ws[n]
             pos  == Cardinality({k \in DOMAIN rest :
                                    Len(rest[k].word) > Len(x.word)})
         IN  SubSeq(rest, 1, pos) \o <<x>> \o SubSeq(rest, pos + 1, Len(rest))

\* Array.prototype.sort with (a, b) => b.word.length - a.word.length:
\* a stable sort, longest first
RECURSIVE SortByLength(_)
SortByLength(ws) ==
    IF Len(ws) <= 1 THEN ws
    ELSE LET n    == Len(ws)
             rest == SortByLength(SubSeq(ws, 1, n - 1))
             x    == ws[n]
             \* x goes after every element at least as long as x
             pos  == Cardinality({k \in DOMAIN rest :
                                    Len(rest[k].word) >= Len(x.word)})
         IN  SubSeq(rest, 1, pos) \o <<x>> \o SubSeq(rest, pos + 1, Len(rest))

(***************************************************************************)
(* Grid geometry                                                           *)
(***************************************************************************)
Null == "null"

\* Array(n).fill(null).map(() => Array(n).fill(null))
EmptyGrid(n) == [r \in 0..(n - 1) |-> [c \in 0..(n - 1) |-> Null]]

\* grid.length
GridSize(g) == Cardinality(DOMAIN g)

Opposite(direction) == IF direction = "across" THEN "down" ELSE "across"

\* row and column of the k-th letter (k from 0) of a word starting at (row, col)
CellRow(row, direction, k) == IF direction = "across" THEN row ELSE row + k

CellCol(col, direction, k) == IF direction = "across" THEN col + k ELSE col

\* findIntersections with a single loop: only equal indices are compared
findIntersections_SameIndex(currentWord, placedWord) ==
    LET n   == Min(Len(currentWord), Len(placedWord.word))
        all == [k \in 1..n |-> [currentWordIndex |-> k - 1,
                                placedWordIndex  |-> k - 1]]
        Match(x) == currentWord[x.currentWordIndex + 1]
                      = placedWord.word[x.placedWordIndex + 1]
    IN  SelectSeq(all, Match)

\* findIntersections with the loops exchanged: the placed word's letters
\* are the outer loop
findIntersections_PlacedFirst(currentWord, placedWord) ==
    LET Lc  == Len(currentWord)
        Lp  == Len(placedWord.word)
        all == [k \in 1..(Lc * Lp) |->
                  [currentWordIndex |-> (k - 1) % Lc,
                   placedWordIndex  |-> (k - 1) \div Lc]]
        Match(x) == currentWord[x.currentWordIndex + 1]
                      = placedWord.word[x.placedWordIndex + 1]
    IN  SelectSeq(all, Match)

findIntersections(currentWord, placedWord) ==
    LET Lc  == Len(currentWord)
        Lp  == Len(placedWord.word)
        all == [k \in 1..(Lc * Lp) |->
                  [currentWordIndex |-> (k - 1) \div Lp,
                   placedWordIndex  |-> (k - 1) % Lp]]
        Match(x) == currentWord[x.currentWordIndex + 1]
                      = placedWord.word[x.placedWordIndex + 1]
    IN  SelectSeq(all, Match)

\* canPlaceWord without the check of the cells beside a new cell
canPlaceWord_NoSideCheck(g, word, row, col, direction) ==
    LET gridSize == GridSize(g)
        L        == Len(word)
        inBounds ==
            IF direction = "across"
            THEN ~(row < 0 \/ row >= gridSize \/ col < 0 \/ col + L > gridSize)
            ELSE ~(col < 0 \/ col >= gridSize \/ row < 0 \/ row + L > gridSize)
        CellOk(k) ==
            LET r == CellRow(row, direction, k)
                c == CellCol(col, direction, k)
            IN  ~(g[r][c] # Null /\ g[r][c] # word[k + 1])
        endsOk ==
            IF direction = "across"
            THEN /\ ~(col > 0 /\ g[row][col - 1] # Null)
                 /\ ~(col + L < gridSize /\ g[row][col + L] # Null)
            ELSE /\ ~(row > 0 /\ g[row - 1][col] # Null)
                 /\ ~(row + L < gridSize /\ g[row + L][col] # Null)
    IN  /\ inBounds
        /\ \A k \in 0..(L - 1) : CellOk(k)
        /\ endsOk

\* canPlaceWord without the check of the cells before and after the word
canPlaceWord_NoEndCheck(g, word, row, col, direction) ==
    LET gridSize == GridSize(g)
        L        == Len(word)
        inBounds ==
            IF direction = "across"
            THEN ~(row < 0 \/ row >= gridSize \/ col < 0 \/ col + L > gridSize)
            ELSE ~(col < 0 \/ col >= gridSize \/ row < 0 \/ row + L > gridSize)
        CellOk(k) ==
            LET r == CellRow(row, direction, k)
                c == CellCol(col, direction, k)
            IN  /\ ~(g[r][c] # Null /\ g[r][c] # word[k + 1])
                /\ IF direction = "across"
                   THEN g[r][c] = Null =>
                          /\ ~(r > 0 /\ g[r - 1][c] # Null)
                          /\ ~(r < gridSize - 1 /\ g[r + 1][c] # Null)
                   ELSE g[r][c] = Null =>
                          /\ ~(c > 0 /\ g[r][c - 1] # Null)
                          /\ ~(c < gridSize - 1 /\ g[r][c + 1] # Null)
    IN  /\ inBounds
        /\ \A k \in 0..(L - 1) : CellOk(k)

canPlaceWord(g, word, row, col, direction) ==
    LET gridSize == GridSize(g)
        L        == Len(word)
        inBounds ==
            IF direction = "across"
            THEN ~(row < 0 \/ row >= gridSize \/ col < 0 \/ col + L > gridSize)
            ELSE ~(col < 0 \/ col >= gridSize \/ row < 0 \/ row + L > gridSize)
        CellOk(k) ==
            LET r == CellRow(row, direction, k)
                c == CellCol(col, direction, k)
            IN  /\ ~(g[r][c] # Null /\ g[r][c] # word[k + 1])
                /\ IF direction = "across"
                   THEN g[r][c] = Null =>
                          /\ ~(r > 0 /\ g[r - 1][c] # Null)
                          /\ ~(r < gridSize - 1 /\ g[r + 1][c] # Null)
                   ELSE g[r][c] = Null =>
                          /\ ~(c > 0 /\ g[r][c - 1] # Null)
                          /\ ~(c < gridSize - 1 /\ g[r][c + 1] # Null)
        endsOk ==
            IF direction = "across"
            THEN /\ ~(col > 0 /\ g[row][col - 1] # Null)
                 /\ ~(col + L < gridSize /\ g[row][col + L] # Null)
            ELSE /\ ~(row > 0 /\ g[row - 1][col] # Null)
                 /\ ~(row + L < gridSize /\ g[row + L][col] # Null)
    IN  /\ inBounds
        /\ \A k \in 0..(L - 1) : CellOk(k)
        /\ endsOk

\* placeWord writing the word on a cleared grid
placeWord_ClearedGrid(g, word, row, col, direction) ==
    [r \in DOMAIN g |-> [c \in DOMAIN g[r] |->
        IF direction = "across" /\ r = row /\ c >= col /\ c < col + Len(word)
        THEN word[c - col + 1]
        ELSE IF direction = "down" /\ c = col /\ r >= row /\ r < row + Len(word)
        THEN word[r - row + 1]
        ELSE Null]]

placeWord(g, word, row, col, direction) ==
    [r \in DOMAIN g |->
       [c \in DOMAIN g[r] |->
          IF direction = "across"
          THEN IF r = row /\ c >= col /\ c < col + Len(word)
               THEN word[c - col + 1] ELSE g[r][c]
          ELSE IF c = col /\ r >= row /\ r < row + Len(word)
               THEN word[r - row + 1] ELSE g[r][c]]]

RECURSIVE SumSeq(_)
SumSeq(s) == IF s = <<>> THEN 0 ELSE Head(s) + SumSeq(Tail(s))

\* The code returns totalDistance / placedWords.length, a fraction; the
\* model keeps numerator and denominator and compares by cross
\* multiplication (avg < t  iff  total < t * count, count > 0).
calculateAverageDistance(row, col, pws) ==
    IF Len(pws) = 0 THEN [total |-> 0, count |-> 1]
    ELSE [total |-> SumSeq([k \in DOMAIN pws |->
                              Abs(row - pws[k].row) + Abs(col - pws[k].col)]),
          count |-> Len(pws)]

AvgLess(avg, t) == avg.total < t * avg.count

\* scorePlacement with the penalty applied to every word longer than 6
scorePlacement_PenaltyForLong(g, word, row, col, direction, pws) ==
    LET hits == {k \in 0..(Len(word) - 1) :
                   g[CellRow(row, direction, k)][CellCol(col, direction, k)]
                     = word[k + 1]}
        s1   == 10 * Cardinality(hits)
        avg  == calculateAverageDistance(row, col, pws)
        s2   == IF AvgLess(avg, 5) THEN s1 + 5 ELSE s1
        s3   == IF AvgLess(avg, 3) THEN s2 + 5 ELSE s2
    IN  IF Len(word) > 6 THEN s3 - 5 ELSE s3

scorePlacement(g, word, row, col, direction, pws) ==
    LET hits == {k \in 0..(Len(word) - 1) :
                   g[CellRow(row, direction, k)][CellCol(col, direction, k)]
                     = word[k + 1]}
        s1   == 10 * Cardinality(hits)
        avg  == calculateAverageDistance(row, col, pws)
        s2   == IF AvgLess(avg, 5) THEN s1 + 5 ELSE s1
        s3   == IF AvgLess(avg, 3) THEN s2 + 5 ELSE s2
    IN  IF Len(word) > 6 /\ s3 < 10 THEN s3 - 5 ELSE s3

(***************************************************************************)
(* Candidate pool of one pass of the retry loop                            *)
(***************************************************************************)
\* the candidates derived from one placed word, in discovery order
\* candidates whose down words start two rows below the placed word
CandidatesFrom_Detached(g, currentWord, placedWord, pws) ==
    LET direction == Opposite(placedWord.direction)
        Row(x) == IF direction = "across"
                  THEN placedWord.row + x.placedWordIndex
                  ELSE placedWord.row + 2
        Col(x) == IF direction = "across"
                  THEN placedWord.col - x.currentWordIndex
                  ELSE placedWord.col + x.placedWordIndex
        Valid(x) == canPlaceWord(g, currentWord.word, Row(x), Col(x), direction)
        ok == SelectSeq(findIntersections(currentWord.word, placedWord), Valid)
    IN  [k \in DOMAIN ok |->
           [word      |-> currentWord.word,
            clue      |-> currentWord.clue,
            row       |-> Row(ok[k]),
            col       |-> Col(ok[k]),
            direction |-> direction,
            score     |-> scorePlacement(g, currentWord.word, Row(ok[k]),
                                         Col(ok[k]), direction, pws)]]

CandidatesFrom(g, currentWord, placedWord, pws) ==
    LET direction == Opposite(placedWord.direction)
        Row(x) == IF direction = "across"
                  THEN placedWord.row + x.placedWordIndex
                  ELSE placedWord.row - x.currentWordIndex
        Col(x) == IF direction = "across"
                  THEN placedWord.col - x.currentWordIndex
                  ELSE placedWord.col + x.placedWordIndex
        Valid(x) == canPlaceWord(g, currentWord.word, Row(x), Col(x), direction)
        ok == SelectSeq(findIntersections(currentWord.word, placedWord), Valid)
    IN  [k \in DOMAIN ok |->
           [word      |-> currentWord.word,
            clue      |-> currentWord.clue,
            row       |-> Row(ok[k]),
            col       |-> Col(ok[k]),
            direction |-> direction,
            score     |-> scorePlacement(g, currentWord.word, Row(ok[k]),
                                         Col(ok[k]), direction, pws)]]

RECURSIVE CandidatesUpTo(_, _, _, _)
CandidatesUpTo(g, currentWord, pws, n) ==
    IF n = 0 THEN <<>>
    ELSE CandidatesUpTo(g, currentWord, pws, n - 1)
           \o CandidatesFrom(g, currentWord, pws[n], pws)

Candidates(g, currentWord, pws) == CandidatesUpTo(g, currentWord, pws, Len(pws))

\* the comparator reversed (a.score - b.score): lowest score first
RECURSIVE SortByScore_Ascending(_)
SortByScore_Ascending(cs) ==
    IF Len(cs) <= 1 THEN cs
    ELSE LET n    == Len(cs)
             rest == SortByScore_Ascending(SubSeq(cs, 1, n - 1))
             x    == cs[n]
             pos  == Cardinality({k \in DOMAIN rest : rest[k].score <= x.score})
         IN  SubSeq(rest, 1, pos) \o <<x>> \o SubSeq(rest, pos + 1, Len(rest))

\* candidates.sort((a, b) => b.score - a.score): stable, highest score first
RECURSIVE SortByScore(_)
SortByScore(cs) ==
    IF Len(cs) <= 1 THEN cs
    ELSE LET n    == Len(cs)
             rest == SortByScore(SubSeq(cs, 1, n - 1))
             x    == cs[n]
             pos  == Cardinality({k \in DOMAIN rest : rest[k].score >= x.score})
         IN  SubSeq(rest, 1, pos) \o <<x>> \o SubSeq(rest, pos + 1, Len(rest))

(***************************************************************************)
(* Compaction and clue numbering                                           *)
(***************************************************************************)
\* the default gridPadding kept around the content
CompactPadding_Default == DefaultGridPadding

\* the padding taken from options.gridPadding
CompactPadding_FromOption == gridPadding

CompactPadding == 0

SetMin(S) == CHOOSE x \in S : \A y \in S : x <= y

SetMax(S) == CHOOSE x \in S : \A y \in S : x >= y

\* compactGrid with the column shift of the word records forgotten
compactGrid_NoColShift(g, words) ==
    LET gridSize == GridSize(g)
        rows == {r \in DOMAIN g : \E c \in DOMAIN g[r] : g[r][c] # Null}
        cols == {c \in DOMAIN g : \E r \in DOMAIN g : g[r][c] # Null}
        minRow == IF rows = {} THEN gridSize ELSE SetMin(rows)
        maxRow == IF rows = {} THEN -1 ELSE SetMax(rows)
        minCol == IF cols = {} THEN gridSize ELSE SetMin(cols)
        maxCol == IF cols = {} THEN -1 ELSE SetMax(cols)
        newSize == Max(maxRow - minRow + 1, maxCol - minCol + 1)
    IN  [size  |-> newSize,
         grid  |-> [r \in 0..(newSize - 1) |->
                      [c \in 0..(newSize - 1) |->
                         IF r + minRow <= maxRow /\ c + minCol <= maxCol
                         THEN g[r + minRow][c + minCol] ELSE Null]],
         words |-> [k \in DOMAIN words |-> [words[k] EXCEPT !.row = @ - minRow]]]

\* compactGrid with the word records re-based to 1 instead of 0
compactGrid_OneBased(g, words) ==
    LET gridSize == GridSize(g)
        rows == {r \in DOMAIN g : \E c \in DOMAIN g[r] : g[r][c] # Null}
        cols == {c \in DOMAIN g : \E r \in DOMAIN g : g[r][c] # Null}
        minRow == IF rows = {} THEN gridSize ELSE SetMin(rows)
        maxRow == IF rows = {} THEN -1 ELSE SetMax(rows)
        minCol == IF cols = {} THEN gridSize ELSE SetMin(cols)
        maxCol == IF cols = {} THEN -1 ELSE SetMax(cols)
        newSize == Max(maxRow - minRow + 1, maxCol - minCol + 1)
    IN  [size  |-> newSize,
         grid  |-> [r \in 0..(newSize - 1) |->
                      [c \in 0..(newSize - 1) |->
                         IF r + minRow <= maxRow /\ c + minCol <= maxCol
                         THEN g[r + minRow][c + minCol] ELSE Null]],
         words |-> [k \in DOMAIN words |->
                      [words[k] EXCEPT !.row = @ - minRow + 1,
                                       !.col = @ - minCol + 1]]]

\* compactGrid with the new size taken from the height alone
compactGrid_HeightOnly(g, words) ==
    LET rows == {r \in DOMAIN g : \E c \in DOMAIN g[r] : g[r][c] # Null}
        cols == {c \in DOMAIN g : \E r \in DOMAIN g : g[r][c] # Null}
        minRow == IF rows = {} THEN GridSize(g) ELSE SetMin(rows)
        maxRow == IF rows = {} THEN -1 ELSE SetMax(rows)
        minCol == IF cols = {} THEN GridSize(g) ELSE SetMin(cols)
        maxCol == IF cols = {} THEN -1 ELSE SetMax(cols)
        newSize == maxRow - minRow + 1
    IN  [size  |-> newSize,
         grid  |-> [r \in 0..(newSize - 1) |->
                      [c \in 0..(newSize - 1) |->
                         IF r + minRow <= maxRow /\ c + minCol <= maxCol
                         THEN g[r + minRow][c + minCol] ELSE Null]],
         words |-> [k \in DOMAIN words |->
                      [words[k] EXCEPT !.row = @ - minRow, !.col = @ - minCol]]]

compactGrid(g, words) ==
    LET gridSize == GridSize(g)
        rows == {r \in DOMAIN g : \E c \in DOMAIN g[r] : g[r][c] # Null}
        cols == {c \in DOMAIN g : \E r \in DOMAIN g : g[r][c] # Null}
        minRow0 == IF rows = {} THEN gridSize ELSE SetMin(rows)
        maxRow0 == IF rows = {} THEN -1 ELSE SetMax(rows)
        minCol0 == IF cols = {} THEN gridSize ELSE SetMin(cols)
        maxCol0 == IF cols = {} THEN -1 ELSE SetMax(cols)
        minRow == Max(0, minRow0 - CompactPadding)
        maxRow == Min(gridSize - 1, maxRow0 + CompactPadding)
        minCol == Max(0, minCol0 - CompactPadding)
        maxCol == Min(gridSize - 1, maxCol0 + CompactPadding)
        newSize == Max(maxRow - minRow + 1, maxCol - minCol + 1)
    IN  [size  |-> newSize,
         grid  |-> [r \in 0..(newSize - 1) |->
                      [c \in 0..(newSize - 1) |->
                         IF r + minRow <= maxRow /\ c + minCol <= maxCol
                         THEN g[r + minRow][c + minCol] ELSE Null]],
         words |-> [k \in DOMAIN words |->
                      [words[k] EXCEPT !.row = @ - minRow, !.col = @ - minCol]]]

\* the comparator with column and row exchanged
PosBefore_ColumnFirst(p, q) == p[2] < q[2] \/ (p[2] = q[2] /\ p[1] < q[1])

\* reading order of start cells: row first, then column
PosBefore(p, q) == p[1] < q[1] \/ (p[1] = q[1] /\ p[2] < q[2])

RECURSIVE SortPositions(_)
SortPositions(S) ==
    IF S = {} THEN <<>>
    ELSE LET first == CHOOSE p \in S : \A q \in S \ {p} : PosBefore(p, q)
         IN  <<first>> \o SortPositions(S \ {first})

RECURSIVE NumberFrom(_, _, _)
NumberFrom(words, positions, n) ==
    IF n > Len(positions) THEN <<>>
    ELSE LET At(w) == <<w.row, w.col>> = positions[n]
             here  == SelectSeq(words, At)
         IN  [k \in DOMAIN here |->
                [number    |-> n,
                 word      |-> here[k].word,
                 clue      |-> here[k].clue,
                 answer    |-> here[k].word,
                 startRow  |-> here[k].row,
                 startCol  |-> here[k].col,
                 direction |-> here[k].direction]]
               \o NumberFrom(words, positions, n + 1)

\* assignClueNumbers with startPositions.set(key, [word]) in place of the
\* push: only the last word of each start cell is kept
assignClueNumbers_KeepsLast(words) ==
    LET last == SelectSeq([k \in DOMAIN words |-> k],
                          LAMBDA k : ~\E m \in DOMAIN words :
                                        /\ m > k
                                        /\ words[m].row = words[k].row
                                        /\ words[m].col = words[k].col)
        kept == [k \in DOMAIN last |-> words[last[k]]]
    IN  NumberFrom(kept, SortPositions({<<kept[k].row, kept[k].col>> :
                                          k \in DOMAIN kept}), 1)

\* The Map keys `${row},${col}` are modelled as the pairs <<row, col>>:
\* the key text determines the pair and the pair the key text.
assignClueNumbers(words) ==
    LET startPositions  == {<<words[k].row, words[k].col>> : k \in DOMAIN words}
        sortedPositions == SortPositions(startPositions)
    IN  NumberFrom(words, sortedPositions, 1)

(***************************************************************************)
(* Inputs                                                                  *)
(***************************************************************************)
\* the raw { word, clue } entries a caller may pass
InputPool ==
    { [word |-> <<" ","a","b">>,                 clue |-> <<" ","y"," ">>],
      [word |-> <<"B","C","D">>,                 clue |-> <<"a">>],
      [word |-> <<"F","G","H">>,                 clue |-> <<"b">>],
      [word |-> <<"J","K","L">>,                 clue |-> <<"c">>],
      [word |-> <<"c","o","f","f","e","e">>,     clue |-> <<"d">>],
      [word |-> <<"c","o","-","f","f","e","e">>, clue |-> <<"e">>],
      [word |-> <<"A">>,                         clue |-> <<>>],
      [word |-> <<"V","E","R","Y","L","O","N","G","W","O","R","D">>,
                                                 clue |-> <<"g">>] }

InputLists == UNION {[1..n -> InputPool] : n \in 0..MaxWords}

MaxAttemptsChoices == 0..MaxAttemptsBound

MinIntersectionsChoices == {1, 16}

GridPaddingChoices == {0, 2}

(***************************************************************************)
(* State machine of generateCrossword                                      *)
(***************************************************************************)
MinInitialGridSize == 30

MinPlacedWords == 3

\* the threshold with the number of words ignored
RequiredPlaced_Fixed(wordCount) == MinPlacedWords

\* the threshold satisfied by the anchor alone
RequiredPlaced_One(wordCount) == Min(1, wordCount)

\* Math.min(3, sortedWords.length)
RequiredPlaced(wordCount) == Min(MinPlacedWords, wordCount)

Pending == [status |-> "pending"]

NullResult == [status |-> "null"]

\* the value of `return null` at lines 66 and 79
InputFailureResult == NullResult

\* a bare `return;` in place of `return null`
PlacementFailureResult_Undefined == [status |-> "undefined"]

\* the value of `return null` at line 205
PlacementFailureResult == NullResult

NoPlacement == [none |-> TRUE]

Init ==
    /\ wordInputs \in InputLists
    /\ maxAttempts \in MaxAttemptsChoices
    /\ minIntersections \in MinIntersectionsChoices
    /\ gridPadding \in GridPaddingChoices
    /\ pc = "start"
    /\ normalizedWords = <<>>
    /\ sortedWords = <<>>
    /\ grid = <<>>
    /\ placedWords = <<>>
    /\ i = 0
    /\ attempts = 0
    /\ bestPlacement = NoPlacement
    /\ result = Pending
    /\ errorLog = "none"
    /\ StoreCreated

\* lines 63-80: input check and normalization
Normalize ==
    /\ pc = "start"
    /\ IF Len(wordInputs) = 0
       THEN /\ errorLog' = "No words provided"
            /\ result' = InputFailureResult
            /\ pc' = "done"
            /\ UNCHANGED normalizedWords
       ELSE IF Len(Normalized(wordInputs)) = 0
       THEN /\ errorLog' = "No valid words after normalization"
            /\ result' = InputFailureResult
            /\ pc' = "done"
            /\ normalizedWords' = Normalized(wordInputs)
       ELSE /\ normalizedWords' = Normalized(wordInputs)
            /\ pc' = "anchor"
            /\ UNCHANGED <<errorLog, result>>
    /\ UNCHANGED <<wordInputs, maxAttempts, minIntersections, gridPadding,
                   sortedWords, grid, placedWords, i, attempts, bestPlacement>>
    /\ UNCHANGED storeVars

\* lines 82-118: sort, grid allocation, anchor, entry of the for loop
PlaceAnchor ==
    /\ pc = "anchor"
    /\ LET sorted          == SortByLength(normalizedWords)
           maxWordLength   == Len(sorted[1].word)
           initialGridSize == Max(MinInitialGridSize, maxWordLength * 3)
           firstWord       == sorted[1]
           centerRow       == initialGridSize \div 2
           centerCol       == (initialGridSize - Len(firstWord.word)) \div 2
       IN  /\ sortedWords' = sorted
           /\ grid' = placeWord(EmptyGrid(initialGridSize), firstWord.word,
                                centerRow, centerCol, "across")
           /\ placedWords' = <<[word      |-> firstWord.word,
                                clue      |-> firstWord.clue,
                                row       |-> centerRow,
                                col       |-> centerCol,
                                direction |-> "across",
                                score     |-> 0]>>
           /\ i' = 1
           /\ pc' = IF 1 < Len(sorted) THEN "while" ELSE "check"
    /\ attempts' = 0
    /\ bestPlacement' = NoPlacement
    /\ UNCHANGED <<wordInputs, maxAttempts, minIntersections, gridPadding,
                   normalizedWords, result, errorLog>>
    /\ UNCHANGED storeVars

\* the retry loop with a gate that relaxes by 10 points per failed attempt
Attempt_RelaxingGate ==
    /\ pc = "while"
    /\ attempts < maxAttempts /\ bestPlacement = NoPlacement
    /\ LET candidates == Candidates(grid, sortedWords[i + 1], placedWords)
           best       == SortByScore(candidates)[1]
       IN  bestPlacement' =
             IF Len(candidates) > 0
                /\ best.score + 10 * attempts >= minIntersections
             THEN best ELSE NoPlacement
    /\ attempts' = attempts + 1
    /\ UNCHANGED <<wordInputs, maxAttempts, minIntersections, gridPadding,
                   pc, normalizedWords, sortedWords, grid, placedWords, i,
                   result, errorLog>>
    /\ UNCHANGED storeVars

\* lines 126-188: one pass of the retry loop for sortedWords[i]
Attempt ==
    /\ pc = "while"
    /\ attempts < maxAttempts /\ bestPlacement = NoPlacement
    /\ LET candidates == Candidates(grid, sortedWords[i + 1], placedWords)
           best       == SortByScore(candidates)[1]
       IN  bestPlacement' =
             IF Len(candidates) > 0 /\ best.score >= minIntersections
             THEN best ELSE NoPlacement
    /\ attempts' = attempts + 1
    /\ UNCHANGED <<wordInputs, maxAttempts, minIntersections, gridPadding,
                   pc, normalizedWords, sortedWords, grid, placedWords, i,
                   result, errorLog>>
    /\ UNCHANGED storeVars

\* the step that leaves a word, staying on a dropped word to try it again
PlaceOrDrop_RetriesDropped ==
    /\ pc = "while"
    /\ ~(attempts < maxAttempts /\ bestPlacement = NoPlacement)
    /\ IF bestPlacement # NoPlacement
       THEN /\ grid' = placeWord(grid, sortedWords[i + 1].word, bestPlacement.row,
                                 bestPlacement.col, bestPlacement.direction)
            /\ placedWords' = Append(placedWords, bestPlacement)
            /\ i' = i + 1
            /\ pc' = IF i + 1 < Len(sortedWords) THEN "while" ELSE "check"
       ELSE UNCHANGED <<grid, placedWords, i, pc>>
    /\ attempts' = 0
    /\ bestPlacement' = NoPlacement
    /\ UNCHANGED <<wordInputs, maxAttempts, minIntersections, gridPadding,
                   normalizedWords, sortedWords, result, errorLog>>
    /\ UNCHANGED storeVars

\* lines 190-200 and the loop header of line 118: place the word or drop it,
\* then move to the next word
PlaceOrDrop ==
    /\ pc = "while"
    /\ ~(attempts < maxAttempts /\ bestPlacement = NoPlacement)
    /\ IF bestPlacement # NoPlacement
       THEN /\ grid' = placeWord(grid, sortedWords[i + 1].word, bestPlacement.row,
                                 bestPlacement.col, bestPlacement.direction)
            /\ placedWords' = Append(placedWords, bestPlacement)
       ELSE UNCHANGED <<grid, placedWords>>
    /\ i' = i + 1
    /\ attempts' = 0
    /\ bestPlacement' = NoPlacement
    /\ pc' = IF i + 1 < Len(sortedWords) THEN "while" ELSE "check"
    /\ UNCHANGED <<wordInputs, maxAttempts, minIntersections, gridPadding,
                   normalizedWords, sortedWords, result, errorLog>>
    /\ UNCHANGED storeVars

\* lines 202-221: threshold, compaction, clue numbering, return
Finish ==
    /\ pc = "check"
    /\ IF Len(placedWords) < RequiredPlaced(Len(sortedWords))
       THEN /\ errorLog' = "Too few words placed to create valid puzzle"
            /\ result' = PlacementFailureResult
       ELSE LET compacted == compactGrid(grid, placedWords)
            IN  /\ result' = [status |-> "puzzle",
                              size   |-> compacted.size,
                              words  |-> assignClueNumbers(compacted.words),
                              grid   |-> compacted.grid]
                /\ UNCHANGED errorLog
    /\ pc' = "done"
    /\ UNCHANGED <<wordInputs, maxAttempts, minIntersections, gridPadding,
                   normalizedWords, sortedWords, grid, placedWords, i,
                   attempts, bestPlacement>>
    /\ UNCHANGED storeVars

Next == Normalize \/ PlaceAnchor \/ Attempt \/ PlaceOrDrop \/ Finish

Spec == Init /\ [][Next]_vars

(***************************************************************************)
(* Vocabulary of the properties                                            *)
(***************************************************************************)
Done == pc = "done"

Returned == pc = "done" /\ result.status = "puzzle"

\* a placement record (row, col, word) covers cell (r, c)
Covers(w, r, c) ==
    IF w.direction = "across"
    THEN r = w.row /\ c >= w.col /\ c < w.col + Len(w.word)
    ELSE c = w.col /\ r >= w.row /\ r < w.row + Len(w.word)

\* an output word (startRow, startCol, answer) covers cell (r, c)
OutCovers(w, r, c) ==
    IF w.direction = "across"
    THEN r = w.startRow /\ c >= w.startCol /\ c < w.startCol + Len(w.answer)
    ELSE c = w.startCol /\ r >= w.startRow /\ r < w.startRow + Len(w.answer)

Filled(g) == {p \in (DOMAIN g) \X (DOMAIN g) : g[p[1]][p[2]] # Null}

\* the working grid right after the anchor or after a word was handled
AfterPlacement == pc \in {"while", "check"} /\ attempts = 0

\* the input word is kept by the rule of the specification: its uppercased,
\* trimmed form has at least two characters, all of them in A-Z
KeptBySpec(w) ==
    LET t == trim(toUpperCase(w.word))
    IN  Len(t) >= 2 /\ \A k \in DOMAIN t : t[k] \in Range(UpperLetters)

\* V: the number of input words that survive normalization
V == Cardinality({k \in DOMAIN wordInputs : KeptBySpec(wordInputs[k])})

\* P: the number of words placed
P == Len(placedWords)

\* no two kept input words have a letter in common
NoSharedLetters ==
    \A a, b \in DOMAIN wordInputs :
       (a # b /\ KeptBySpec(wordInputs[a]) /\ KeptBySpec(wordInputs[b])) =>
          Range(trim(toUpperCase(wordInputs[a].word)))
            \cap Range(trim(toUpperCase(wordInputs[b].word))) = {}

(***************************************************************************)
(* C1: in every returned puzzle each output word lies inside the grid and  *)
(* the grid holds, along the word's span, exactly the letters of its       *)
(* answer; hence two output words that occupy the same cell agree on its   *)
(* letter (also after compaction).                                         *)
(***************************************************************************)
C1_SpanMatchesGrid ==
    Returned =>
      /\ \A n \in DOMAIN result.words :
           LET w == result.words[n]
           IN  \A k \in 0..(Len(w.answer) - 1) :
                 LET r == CellRow(w.startRow, w.direction, k)
                     c == CellCol(w.startCol, w.direction, k)
                 IN  /\ r \in 0..(result.size - 1)
                     /\ c \in 0..(result.size - 1)
                     /\ result.grid[r][c] = w.answer[k + 1]
      /\ \A m, n \in DOMAIN result.words :
           LET a == result.words[m]
               b == result.words[n]
           IN  \A ka \in 0..(Len(a.answer) - 1), kb \in 0..(Len(b.answer) - 1) :
                 (/\ CellRow(a.startRow, a.direction, ka)
                       = CellRow(b.startRow, b.direction, kb)
                  /\ CellCol(a.startCol, a.direction, ka)
                       = CellCol(b.startCol, b.direction, kb))
                 => a.answer[ka + 1] = b.answer[kb + 1]

\* a returned puzzle in which two different words cross in a cell and the
\* compaction moved the words away from their working-grid position
C1_Witness ==
    /\ Returned
    /\ \E m, n \in DOMAIN result.words :
         /\ m # n
         /\ result.words[m].direction # result.words[n].direction
         /\ \E r, c \in 0..(result.size - 1) :
              OutCovers(result.words[m], r, c) /\ OutCovers(result.words[n], r, c)
    /\ \E k \in DOMAIN placedWords, n \in DOMAIN result.words :
         /\ placedWords[k].word = result.words[n].answer
         /\ placedWords[k].row # result.words[n].startRow

(***************************************************************************)
(* C2: in every returned puzzle every non-null cell of the grid lies in    *)
(* the span of at least one word of the words list.                        *)
(***************************************************************************)
C2_FilledCellsTracked ==
    Returned =>
      \A p \in Filled(result.grid) :
         \E n \in DOMAIN result.words : OutCovers(result.words[n], p[1], p[2])

\* a returned puzzle with filled cells that belong to different words only
C2_Witness ==
    /\ Returned
    /\ Len(result.words) >= 3
    /\ \E p, q \in Filled(result.grid) :
         ~\E n \in DOMAIN result.words :
             OutCovers(result.words[n], p[1], p[2])
               /\ OutCovers(result.words[n], q[1], q[2])

(***************************************************************************)
(* C3: crossword adjacency rule.  In the working grid after every          *)
(* placement, and in every returned grid, two filled cells that are        *)
(* horizontally or vertically adjacent both belong to one common placed    *)
(* word.                                                                   *)
(***************************************************************************)
C3_AdjacencyRule ==
    /\ AfterPlacement =>
         \A p \in Filled(grid) :
            /\ (p[2] + 1 \in DOMAIN grid /\ grid[p[1]][p[2] + 1] # Null) =>
                 \E k \in DOMAIN placedWords :
                    /\ Covers(placedWords[k], p[1], p[2])
                    /\ Covers(placedWords[k], p[1], p[2] + 1)
            /\ (p[1] + 1 \in DOMAIN grid /\ grid[p[1] + 1][p[2]] # Null) =>
                 \E k \in DOMAIN placedWords :
                    /\ Covers(placedWords[k], p[1], p[2])
                    /\ Covers(placedWords[k], p[1] + 1, p[2])
    /\ Returned =>
         \A p \in Filled(result.grid) :
            /\ (p[2] + 1 < result.size /\ result.grid[p[1]][p[2] + 1] # Null) =>
                 \E n \in DOMAIN result.words :
                    /\ OutCovers(result.words[n], p[1], p[2])
                    /\ OutCovers(result.words[n], p[1], p[2] + 1)
            /\ (p[1] + 1 < result.size /\ result.grid[p[1] + 1][p[2]] # Null) =>
                 \E n \in DOMAIN result.words :
                    /\ OutCovers(result.words[n], p[1], p[2])
                    /\ OutCovers(result.words[n], p[1] + 1, p[2])

\* the positions derived from the matching letters of a placed word
DerivedPositions(word, pw) ==
    LET ints == findIntersections(word, pw)
    IN  {IF pw.direction = "down"
         THEN <<pw.row + ints[k].placedWordIndex, pw.col - ints[k].currentWordIndex>>
         ELSE <<pw.row - ints[k].currentWordIndex, pw.col + ints[k].placedWordIndex>>
           : k \in DOMAIN ints}

\* every cell of the span is inside the grid and empty or holding the letter
LettersFit(g, word, row, col, direction) ==
    \A k \in 0..(Len(word) - 1) :
       LET r == CellRow(row, direction, k)
           c == CellCol(col, direction, k)
       IN  /\ r \in DOMAIN g /\ c \in DOMAIN g
           /\ g[r][c] \in {Null, word[k + 1]}

\* a word is about to be attempted on a grid of two or more words, and one
\* of its derived positions fits letter by letter but is refused by the
\* adjacency checks
C3_Witness ==
    /\ pc = "while" /\ attempts = 0
    /\ Len(placedWords) >= 2
    /\ \E k \in DOMAIN placedWords :
         \E pos \in DerivedPositions(sortedWords[i + 1].word, placedWords[k]) :
            /\ LettersFit(grid, sortedWords[i + 1].word, pos[1], pos[2],
                          Opposite(placedWords[k].direction))
            /\ ~canPlaceWord(grid, sortedWords[i + 1].word, pos[1], pos[2],
                             Opposite(placedWords[k].direction))

(***************************************************************************)
(* C4: words are never parallel and overlapping.  No two placed words with *)
(* the same direction occupy a common cell, in the working grid and in the *)
(* returned puzzle, for every input sequence (repeated words included).    *)
(***************************************************************************)
C4_NeverParallelOverlapping ==
    /\ \A a, b \in DOMAIN placedWords :
         (a # b /\ placedWords[a].direction = placedWords[b].direction) =>
            ~\E k \in 0..(Len(placedWords[a].word) - 1) :
                Covers(placedWords[b],
                       CellRow(placedWords[a].row, placedWords[a].direction, k),
                       CellCol(placedWords[a].col, placedWords[a].direction, k))
    /\ Returned =>
         \A m, n \in DOMAIN result.words :
            (m # n /\ result.words[m].direction = result.words[n].direction) =>
               ~\E k \in 0..(Len(result.words[m].answer) - 1) :
                   OutCovers(result.words[n],
                             CellRow(result.words[m].startRow,
                                     result.words[m].direction, k),
                             CellCol(result.words[m].startCol,
                                     result.words[m].direction, k))

C7_TooFewWordsFail ==
    (Done /\ Len(wordInputs) \in {1, 2}) => result = NullResult

(***************************************************************************)
(* C8: no common letters.  For input words that share no letters the first *)
(* word is placed, the others are skipped, and a valid (non-null) puzzle   *)
(* containing 1 word is returned.                                          *)
(***************************************************************************)
C8_DisjointWordsGiveOneWordPuzzle ==
    (Done /\ V >= 2 /\ NoSharedLetters /\ maxAttempts >= 1) =>
      (result.status = "puzzle" /\ Len(result.words) = 1)

(***************************************************************************)
(* C9: on an empty input list, and when every input word is rejected by    *)
(* normalization, generateCrossword fails (returns null) without           *)
(* allocating a grid or placing any word.                                  *)
(***************************************************************************)
C9_InputFailurePlacesNothing ==
    (Len(wordInputs) = 0 \/ V = 0) =>
      /\ pc \in {"start", "done"}
      /\ DOMAIN grid = {}
      /\ Len(placedWords) = 0
      /\ Done => result = NullResult

\* a non-empty input whose entries were all rejected has failed
C9_Witness ==
    /\ Done
    /\ Len(wordInputs) >= 2
    /\ V = 0
    /\ result = NullResult
    /\ DOMAIN grid = {}

(***************************************************************************)
(* C10 (as stated): the returned failure value distinguishes malformed     *)
(* input (empty input, no valid word) from insufficient placement: the     *)
(* value returned for insufficient placement differs from the value        *)
(* returned for malformed input.                                           *)
(***************************************************************************)
C10_FailureValuesDiffer ==
    (Done /\ V >= 1 /\ result.status # "puzzle") => result # InputFailureResult

(***************************************************************************)
(* C10 (amended): the returned value is the same, null, in all three       *)
(* failure cases; only the message given to console.error tells the cases  *)
(* apart, and a successful run logs no error.                              *)
(***************************************************************************)
C10_FailuresReturnNull ==
    Done =>
      /\ Len(wordInputs) = 0 =>
           (result = NullResult /\ errorLog = "No words provided")
      /\ (Len(wordInputs) > 0 /\ V = 0) =>
           (result = NullResult /\ errorLog = "No valid words after normalization")
      /\ (V >= 1 /\ P < Min(3, V)) =>
           (result = NullResult
              /\ errorLog = "Too few words placed to create valid puzzle")
      /\ (V >= 1 /\ P >= Min(3, V)) => errorLog = "none"

\* a run that failed for insufficient placement, returning null
C10_Witness ==
    /\ Done
    /\ V >= 2
    /\ P >= 1
    /\ P < Min(3, V)
    /\ result = NullResult
    /\ errorLog = "Too few words placed to create valid puzzle"

(***************************************************************************)
(* Runs with the default options on words with many common letters         *)
(***************************************************************************)
ScenarioMaxWords == 4

\* the words of the "many common letters" test
OverlapPool ==
    { [word |-> <<"A","R","E","A">>, clue |-> <<"a">>],
      [word |-> <<"R","A","R","E">>, clue |-> <<"b">>],
      [word |-> <<"R","E","A","R">>, clue |-> <<"c">>],
      [word |-> <<"E","A","R","N">>, clue |-> <<"d">>] }

OverlapLists == UNION {[1..n -> OverlapPool] : n \in 0..ScenarioMaxWords}

\* generateCrossword(words) with options = {}
InitOverlap ==
    /\ wordInputs \in OverlapLists
    /\ maxAttempts = DefaultMaxAttempts
    /\ minIntersections = DefaultMinIntersections
    /\ gridPadding = DefaultGridPadding
    /\ pc = "start"
    /\ normalizedWords = <<>>
    /\ sortedWords = <<>>
    /\ grid = <<>>
    /\ placedWords = <<>>
    /\ i = 0
    /\ attempts = 0
    /\ bestPlacement = NoPlacement
    /\ result = Pending
    /\ errorLog = "none"
    /\ StoreCreated

SpecOverlap == InitOverlap /\ [][Next]_vars

(***************************************************************************)
(* C20: for the input AREA, RARE, REAR, EARN with the default              *)
(* configuration generateCrossword succeeds, places at least 3 words and   *)
(* returns a grid whose size is strictly smaller than the 30x30 working    *)
(* grid.                                                                   *)
(***************************************************************************)
AreaRareRearEarn ==
    << [word |-> <<"A","R","E","A">>, clue |-> <<"a">>],
       [word |-> <<"R","A","R","E">>, clue |-> <<"b">>],
       [word |-> <<"R","E","A","R">>, clue |-> <<"c">>],
       [word |-> <<"E","A","R","N">>, clue |-> <<"d">>] >>

C20_ManyCommonLetters ==
    (Done /\ wordInputs = AreaRareRearEarn) =>
      /\ result.status = "puzzle"
      /\ Len(result.words) >= 3
      /\ result.size < 30
      /\ GridSize(grid) = 30

\* the run on AREA, RARE, REAR, EARN has returned its puzzle
C20_Witness ==
    /\ Done
    /\ wordInputs = AreaRareRearEarn
    /\ maxAttempts = 50 /\ minIntersections = 1 /\ gridPadding = 2
    /\ result.status = "puzzle"
    /\ P >= 3

(***************************************************************************)
(* C19 (as stated): the placed subset is maximal.  When the placement loop *)
(* has finished, no valid word that was not placed has a position, derived *)
(* from a matching letter of a placed word and perpendicular to it, that   *)
(* passes the validation rules against the final working grid.             *)
(***************************************************************************)
\* how often the entry occurs in a sequence of entries or records
Occurrences(seq, w) ==
    Cardinality({k \in DOMAIN seq : seq[k].word = w.word /\ seq[k].clue = w.clue})

\* the sorted words that were dropped
NotPlaced ==
    {k \in DOMAIN sortedWords :
       Occurrences(sortedWords, sortedWords[k]) > Occurrences(placedWords, sortedWords[k])}

C19_PlacedSubsetMaximal ==
    (pc \in {"check", "done"} /\ maxAttempts >= 1 /\ minIntersections <= 10) =>
      \A k \in NotPlaced : Len(Candidates(grid, sortedWords[k], placedWords)) = 0

\* inputs in which a later, shorter word links an earlier word to the grid
GreedyPool ==
    { [word |-> <<"c","o","f","f","e","e">>, clue |-> <<"d">>],
      [word |-> <<"K","J","L">>,             clue |-> <<"c">>],
      [word |-> <<"F","G","H">>,             clue |-> <<"b">>],
      [word |-> <<"H","K">>,                 clue |-> <<"h">>] }

GreedyLists == UNION {[1..n -> GreedyPool] : n \in 0..ScenarioMaxWords}

InitGreedy ==
    /\ wordInputs \in GreedyLists
    /\ maxAttempts \in MaxAttemptsChoices
    /\ minIntersections \in MinIntersectionsChoices
    /\ gridPadding = DefaultGridPadding
    /\ pc = "start"
    /\ normalizedWords = <<>>
    /\ sortedWords = <<>>
    /\ grid = <<>>
    /\ placedWords = <<>>
    /\ i = 0
    /\ attempts = 0
    /\ bestPlacement = NoPlacement
    /\ result = Pending
    /\ errorLog = "none"
    /\ StoreCreated

SpecGreedy == InitGreedy /\ [][Next]_vars

(***************************************************************************)
(* C19 (amended): the placed subset is greedy.  Each word is decided once, *)
(* against the working grid of that moment: it is dropped exactly when no  *)
(* pass was made (maxAttempts < 1) or no validated candidate derived from  *)
(* the words placed before it scores at least minIntersections.            *)
(***************************************************************************)
C19_DroppedWhenNoCandidateThen ==
    (pc = "while" /\ ~(attempts < maxAttempts /\ bestPlacement = NoPlacement)) =>
      ((bestPlacement = NoPlacement) <=>
         (\/ maxAttempts < 1
          \/ LET cs == Candidates(grid, sortedWords[i + 1], placedWords)
             IN  \A k \in DOMAIN cs : cs[k].score < minIntersections))

\* a puzzle was returned although a dropped word fits the final grid
C19_Witness ==
    /\ Returned
    /\ maxAttempts >= 1 /\ minIntersections <= 10
    /\ \E k \in NotPlaced : Len(Candidates(grid, sortedWords[k], placedWords)) > 0


(***************************************************************************)
(* C12: normalization.  An input word is kept exactly when its uppercased, *)
(* whitespace-trimmed form has at least 2 characters, all in A-Z; every    *)
(* other entry is dropped without an error.  Every word of a returned      *)
(* puzzle is an uppercase letters-only string of length >= 2 that is the   *)
(* normalized form of an input entry: 'co-ffee' and 'A' never appear,      *)
(* 'coffee' appears as 'COFFEE'.                                           *)
(***************************************************************************)
\* the normalized forms of the kept entries, in input order
KeptWords ==
    LET kept == SelectSeq(wordInputs, KeptBySpec)
    IN  [k \in DOMAIN kept |-> trim(toUpperCase(kept[k].word))]

C12_Normalization ==
    /\ pc # "start" =>
         [k \in DOMAIN normalizedWords |-> normalizedWords[k].word] = KeptWords
    /\ (pc \in {"anchor", "while", "check"}) =>
         (V >= 1 /\ errorLog = "none" /\ result = Pending)
    /\ (pc # "start" /\ \E k \in DOMAIN wordInputs :
                          wordInputs[k].word = <<"c","o","f","f","e","e">>) =>
         \E k \in DOMAIN normalizedWords :
            normalizedWords[k].word = <<"C","O","F","F","E","E">>
    /\ Returned =>
         \A n \in DOMAIN result.words :
            LET a == result.words[n].answer
            IN  /\ Len(a) >= 2
                /\ \A k \in DOMAIN a : a[k] \in Range(UpperLetters)
                /\ a \in Range(KeptWords)
                /\ a # <<"A">>
                /\ a # <<"C","O","-","F","F","E","E">>
                /\ a # <<"c","o","-","f","f","e","e">>

\* a puzzle returned for an input with rejected entries and a padded
\* lowercase entry, which appears in its normalized form
C12_Witness ==
    /\ Returned
    /\ V < Len(wordInputs)
    /\ \E k \in DOMAIN wordInputs : wordInputs[k].word = <<" ","a","b">>
    /\ \E n \in DOMAIN result.words : result.words[n].answer = <<"A","B">>

(***************************************************************************)
(* C13: clue numbering.  In every returned puzzle the distinct start cells *)
(* of the words, sorted by row ascending then column ascending, carry the  *)
(* numbers 1..k without a gap; words starting at the same cell carry the   *)
(* same number, words with the same number start at the same cell; the     *)
(* words list is ordered by non-decreasing number.                         *)
(***************************************************************************)
C13_ClueNumbering ==
    Returned =>
      LET ws     == result.words
          starts == {<<ws[n].startRow, ws[n].startCol>> : n \in DOMAIN ws}
      IN  /\ {ws[n].number : n \in DOMAIN ws} = 1..Cardinality(starts)
          /\ \A m, n \in DOMAIN ws :
               /\ (ws[m].startRow = ws[n].startRow /\ ws[m].startCol = ws[n].startCol)
                    <=> (ws[m].number = ws[n].number)
               /\ (\/ ws[m].startRow < ws[n].startRow
                   \/ (ws[m].startRow = ws[n].startRow
                         /\ ws[m].startCol < ws[n].startCol))
                    => ws[m].number < ws[n].number
               /\ m < n => ws[m].number <= ws[n].number

\* a puzzle with two words on one start cell and a later start cell that
\* lies in a lower row but further left than an earlier one
C13_Witness ==
    /\ Returned
    /\ \E m, n \in DOMAIN result.words :
         /\ m # n
         /\ result.words[m].number = result.words[n].number
    /\ \E m, n \in DOMAIN result.words :
         /\ result.words[m].startRow < result.words[n].startRow
         /\ result.words[m].startCol > result.words[n].startCol

(***************************************************************************)
(* C14 (as stated): compaction invariant.  In every returned puzzle none   *)
(* of the four border lines of the grid (row 0, row size-1, column 0,      *)
(* column size-1) is entirely null.                                        *)
(***************************************************************************)
RowHasLetter(g, r) == \E c \in DOMAIN g[r] : g[r][c] # Null

ColHasLetter(g, c) == \E r \in DOMAIN g : g[r][c] # Null

C14_NoEmptyBorder ==
    Returned =>
      /\ RowHasLetter(result.grid, 0)
      /\ RowHasLetter(result.grid, result.size - 1)
      /\ ColHasLetter(result.grid, 0)
      /\ ColHasLetter(result.grid, result.size - 1)

(***************************************************************************)
(* C14 (amended): in every returned puzzle row 0 and column 0 are not      *)
(* entirely null and the side of the square grid equals the longer side of *)
(* the content's bounding box, so that row size-1 or column size-1 is not  *)
(* entirely null; on the shorter axis the lines beyond the content are     *)
(* entirely null.                                                          *)
(***************************************************************************)
C14_TightSquare ==
    Returned =>
      LET g      == result.grid
          height == 1 + SetMax({p[1] : p \in Filled(g)})
          width  == 1 + SetMax({p[2] : p \in Filled(g)})
      IN  /\ RowHasLetter(g, 0)
          /\ ColHasLetter(g, 0)
          /\ result.size = Max(height, width)
          /\ RowHasLetter(g, result.size - 1) \/ ColHasLetter(g, result.size - 1)
          /\ \A r \in height..(result.size - 1) : ~RowHasLetter(g, r)
          /\ \A c \in width..(result.size - 1) : ~ColHasLetter(g, c)

\* a puzzle of crossing words whose last row or last column is empty
C14_Witness ==
    /\ Returned
    /\ Len(result.words) >= 2
    /\ \/ ~RowHasLetter(result.grid, result.size - 1)
       \/ ~ColHasLetter(result.grid, result.size - 1)

(***************************************************************************)
(* C15: idempotence of compaction.  Applying compactGrid to the grid and   *)
(* the word records that compactGrid returned yields the same size, the    *)
(* same grid and the same word positions.                                  *)
(***************************************************************************)
C15_CompactionIdempotent ==
    (pc \in {"check", "done"}) =>
      LET once  == compactGrid(grid, placedWords)
          twice == compactGrid(once.grid, once.words)
      IN  /\ twice.size = once.size
          /\ twice.grid = once.grid
          /\ twice.words = once.words
          /\ Returned => (result.grid = once.grid /\ result.size = once.size)

\* a finished working grid of crossing words whose content is not square
\* and lies away from the top-left corner
C15_Witness ==
    /\ pc \in {"check", "done"}
    /\ Len(placedWords) >= 2
    /\ LET once == compactGrid(grid, placedWords)
       IN  /\ once.size < GridSize(grid)
           /\ once.words # placedWords
           /\ ~RowHasLetter(once.grid, once.size - 1)

(***************************************************************************)
(* C16: minIntersections is the minimum number of intersections needed to  *)
(* accept a placement: the placement the retry loop has accepted for the   *)
(* current word coincides with already-filled cells of the working grid in *)
(* at least minIntersections of its cells.                                 *)
(***************************************************************************)
GateChoices == {2, 3}

InitGate ==
    /\ wordInputs \in GreedyLists
    /\ maxAttempts \in 1..MaxAttemptsBound
    /\ minIntersections \in GateChoices
    /\ gridPadding = DefaultGridPadding
    /\ pc = "start"
    /\ normalizedWords = <<>>
    /\ sortedWords = <<>>
    /\ grid = <<>>
    /\ placedWords = <<>>
    /\ i = 0
    /\ attempts = 0
    /\ bestPlacement = NoPlacement
    /\ result = Pending
    /\ errorLog = "none"
    /\ StoreCreated

SpecGate == InitGate /\ [][Next]_vars

\* the cells of placement w that are already filled in grid g
Crossings(g, w) ==
    {k \in 1..Len(w.word) : g[CellRow(w.row, w.direction, k - 1)]
                             [CellCol(w.col, w.direction, k - 1)] # Null}

C16_MinIntersectionsCounted ==
    (pc = "while" /\ bestPlacement # NoPlacement) =>
        Cardinality(Crossings(grid, bestPlacement)) >= minIntersections

(***************************************************************************)
(* generateCrossword as a function of its arguments, for comparing calls   *)
(* that differ in one option                                               *)
(***************************************************************************)
RECURSIVE RetryLoop(_, _, _, _, _, _)
\* lines 120-188: the while loop for one word, from attempt count att
RetryLoop(g, currentWord, pws, maxAtt, minInt, att) ==
    IF att < maxAtt
    THEN LET candidates == Candidates(g, currentWord, pws)
             best       == SortByScore(candidates)[1]
         IN  IF Len(candidates) > 0 /\ best.score >= minInt
             THEN best
             ELSE RetryLoop(g, currentWord, pws, maxAtt, minInt, att + 1)
    ELSE NoPlacement

RECURSIVE PlaceRest(_, _, _, _, _, _)
\* lines 118-200: the for loop from index k on
PlaceRest(sorted, k, g, pws, maxAtt, minInt) ==
    IF k >= Len(sorted)
    THEN [grid |-> g, placedWords |-> pws]
    ELSE LET best == RetryLoop(g, sorted[k + 1], pws, maxAtt, minInt, 0)
         IN  IF best # NoPlacement
             THEN PlaceRest(sorted, k + 1,
                            placeWord(g, sorted[k + 1].word, best.row,
                                      best.col, best.direction),
                            Append(pws, best), maxAtt, minInt)
             ELSE PlaceRest(sorted, k + 1, g, pws, maxAtt, minInt)

\* lines 49-221; options.gridPadding is destructured at line 60 and not read
generateCrossword(inputs, options) ==
    IF Len(inputs) = 0 THEN InputFailureResult
    ELSE IF Len(Normalized(inputs)) = 0 THEN InputFailureResult
    ELSE LET sorted          == SortByLength(Normalized(inputs))
             maxWordLength   == Len(sorted[1].word)
             initialGridSize == Max(MinInitialGridSize, maxWordLength * 3)
             firstWord       == sorted[1]
             centerRow       == initialGridSize \div 2
             centerCol       == (initialGridSize - Len(firstWord.word)) \div 2
             final == PlaceRest(sorted, 1,
                                placeWord(EmptyGrid(initialGridSize),
                                          firstWord.word, centerRow,
                                          centerCol, "across"),
                                <<[word      |-> firstWord.word,
                                   clue      |-> firstWord.clue,
                                   row       |-> centerRow,
                                   col       |-> centerCol,
                                   direction |-> "across",
                                   score     |-> 0]>>,
                                options.maxAttempts,
                                options.minIntersections)
         IN  IF Len(final.placedWords) < RequiredPlaced(Len(sorted))
             THEN PlacementFailureResult
             ELSE LET compacted == compactGrid(final.grid, final.placedWords)
                  IN  [status |-> "puzzle",
                       size   |-> compacted.size,
                       words  |-> assignClueNumbers(compacted.words),
                       grid   |-> compacted.grid]

RankBySpec(k) ==
    Cardinality({m \in DOMAIN normalizedWords :
        \/ Len(normalizedWords[m].word) > Len(normalizedWords[k].word)
        \/ /\ Len(normalizedWords[m].word) = Len(normalizedWords[k].word)
           /\ m < k})

RECURSIVE IsSubsequence(_, _)
\* a is obtained from b by deleting elements
IsSubsequence(a, b) ==
    IF Len(a) = 0 THEN TRUE
    ELSE IF Len(b) = 0 THEN FALSE
    ELSE IF Head(a) = Head(b) THEN IsSubsequence(Tail(a), Tail(b))
    ELSE IsSubsequence(a, Tail(b))

C21_OrderingAndAnchor ==
    (pc \in {"while", "check"} \/ (pc = "done" /\ sortedWords # <<>>)) =>
      LET L == Len(sortedWords[1].word)
          S == Max(30, 3 * L)
          anchor == placedWords[1]
      IN  /\ Len(sortedWords) = Len(normalizedWords)
          /\ \A k \in DOMAIN normalizedWords :
                sortedWords[RankBySpec(k) + 1] = normalizedWords[k]
          /\ \A k \in DOMAIN normalizedWords :
                Len(normalizedWords[k].word) <= L
          /\ GridSize(grid) = S
          /\ anchor.word = sortedWords[1].word
          /\ anchor.clue = sortedWords[1].clue
          /\ anchor.direction = "across"
          /\ anchor.row = S \div 2
          /\ anchor.col = (S - L) \div 2
          /\ \A k \in 1..L : grid[S \div 2][(S - L) \div 2 + k - 1]
                               = anchor.word[k]
          /\ IsSubsequence(
                [k \in 1..(Len(placedWords) - 1) |-> placedWords[k + 1].word],
                [k \in 1..(i - 1) |-> sortedWords[k + 1].word])
          /\ Returned =>
                \E n \in DOMAIN result.words :
                   /\ result.words[n].answer = anchor.word
                   /\ result.words[n].clue = anchor.clue
                   /\ result.words[n].direction = "across"

\* a puzzle whose anchor is not the first input word and whose input has two
\* different words of one length
C21_Witness ==
    /\ Returned
    /\ Len(normalizedWords) >= 3
    /\ sortedWords # normalizedWords
    /\ \E k, m \in DOMAIN normalizedWords :
          /\ k < m
          /\ Len(normalizedWords[k].word) = Len(normalizedWords[m].word)
          /\ normalizedWords[k].word # normalizedWords[m].word

(***************************************************************************)
(* C22: selection rule.  When the retry loop makes a pass (maxAttempts >=  *)
(* 1), the step that leaves a non-anchor word places exactly the candidate *)
(* designated by the rule of the specification - among the validated       *)
(* candidates, enumerated over placed words in placement order, then the   *)
(* new word's letter index, then the placed word's letter index, the first *)
(* one of maximal score - if that score is at least minIntersections, and  *)
(* otherwise leaves the grid and the placed records unchanged.             *)
(***************************************************************************)
\* the candidate derived from letter a of the word and letter b of placed
\* word number p (all counted from 1)
RuleCandidate(word, p, a, b) ==
    LET pw == placedWords[p]
    IN  IF pw.direction = "across"
        THEN [row |-> pw.row - (a - 1), col |-> pw.col + (b - 1),
              direction |-> "down"]
        ELSE [row |-> pw.row + (b - 1), col |-> pw.col - (a - 1),
              direction |-> "across"]

RECURSIVE RuleTotalDistance(_, _, _)
\* the sum of the Manhattan distances from (row, col) to the starts of the
\* first n placed words
RuleTotalDistance(row, col, n) ==
    IF n = 0 THEN 0
    ELSE RuleTotalDistance(row, col, n - 1)
         + (IF row >= placedWords[n].row THEN row - placedWords[n].row
            ELSE placedWords[n].row - row)
         + (IF col >= placedWords[n].col THEN col - placedWords[n].col
            ELSE placedWords[n].col - col)

\* the score of the specification for the word at candidate position cand
RuleScore(word, cand) ==
    LET hits  == Cardinality({k \in 1..Len(word) :
                    grid[IF cand.direction = "down" THEN cand.row + k - 1
                         ELSE cand.row]
                        [IF cand.direction = "across" THEN cand.col + k - 1
                         ELSE cand.col] = word[k]})
        count == Len(placedWords)
        total == RuleTotalDistance(cand.row, cand.col, count)
        soFar == 10 * hits + (IF total < 5 * count THEN 5 ELSE 0)
                           + (IF total < 3 * count THEN 5 ELSE 0)
    IN  IF Len(word) > 6 /\ soFar < 10 THEN soFar - 5 ELSE soFar

\* triple t comes no later than triple u in the enumeration
RuleNoLater(t, u) ==
    \/ t[1] < u[1]
    \/ t[1] = u[1] /\ t[2] < u[2]
    \/ t[1] = u[1] /\ t[2] = u[2] /\ t[3] <= u[3]

\* the placement the rule designates for the current word, or NoPlacement
RuleDesignated ==
    LET cw == sortedWords[i + 1]
        longest == SetMax({Len(placedWords[p].word) : p \in DOMAIN placedWords})
        T  == {t \in (DOMAIN placedWords) \X (DOMAIN cw.word) \X (1..longest) :
                 /\ t[3] <= Len(placedWords[t[1]].word)
                 /\ cw.word[t[2]] = placedWords[t[1]].word[t[3]]
                 /\ LET cand == RuleCandidate(cw.word, t[1], t[2], t[3])
                    IN  canPlaceWord(grid, cw.word, cand.row, cand.col,
                                     cand.direction)}
        Score(t) == RuleScore(cw.word, RuleCandidate(cw.word, t[1], t[2], t[3]))
        top  == SetMax({Score(t) : t \in T})
        best == CHOOSE t \in T :
                   /\ Score(t) = top
                   /\ \A u \in T : Score(u) = top => RuleNoLater(t, u)
        cand == RuleCandidate(cw.word, best[1], best[2], best[3])
    IN  IF T = {} THEN NoPlacement
        ELSE IF top < minIntersections THEN NoPlacement
        ELSE [word |-> cw.word, clue |-> cw.clue, row |-> cand.row,
              col |-> cand.col, direction |-> cand.direction, score |-> top]

C22_SelectionStep ==
    (pc = "while" /\ i' = i + 1 /\ maxAttempts >= 1) =>
       LET d == RuleDesignated
       IN  IF d = NoPlacement
           THEN placedWords' = placedWords /\ grid' = grid
           ELSE /\ placedWords' = Append(placedWords, d)
                /\ grid' = [r \in DOMAIN grid |-> [c \in DOMAIN grid[r] |->
                              IF Covers(d, r, c)
                              THEN d.word[(r - d.row) + (c - d.col) + 1]
                              ELSE grid[r][c]]]

C23_PureTranslation ==
    (pc \in {"check", "done"} /\ placedWords # <<>>) =>
      LET cells  == Filled(grid)
          minRow == SetMin({p[1] : p \in cells})
          maxRow == SetMax({p[1] : p \in cells})
          minCol == SetMin({p[2] : p \in cells})
          maxCol == SetMax({p[2] : p \in cells})
          size   == Max(maxRow - minRow + 1, maxCol - minCol + 1)
          out    == compactGrid(grid, placedWords)
      IN  /\ out.size = size
          /\ DOMAIN out.grid = 0..(size - 1)
          /\ \A r \in 0..(size - 1) :
                /\ DOMAIN out.grid[r] = 0..(size - 1)
                /\ \A c \in 0..(size - 1) :
                      out.grid[r][c] =
                        IF r <= maxRow - minRow /\ c <= maxCol - minCol
                        THEN grid[r + minRow][c + minCol] ELSE Null
          /\ Len(out.words) = Len(placedWords)
          /\ \A k \in DOMAIN placedWords :
                /\ out.words[k].word = placedWords[k].word
                /\ out.words[k].clue = placedWords[k].clue
                /\ out.words[k].direction = placedWords[k].direction
                /\ out.words[k].row = placedWords[k].row - minRow
                /\ out.words[k].col = placedWords[k].col - minCol
          /\ \A k, m \in DOMAIN placedWords :
                /\ out.words[k].row - out.words[m].row
                     = placedWords[k].row - placedWords[m].row
                /\ out.words[k].col - out.words[m].col
                     = placedWords[k].col - placedWords[m].col
          /\ Returned =>
                /\ result.size = size
                /\ result.grid = out.grid
                /\ Len(result.words) = Len(placedWords)
                /\ \A k \in DOMAIN placedWords :
                      \E n \in DOMAIN result.words :
                         /\ result.words[n].answer = placedWords[k].word
                         /\ result.words[n].direction = placedWords[k].direction
                         /\ result.words[n].startRow = placedWords[k].row - minRow
                         /\ result.words[n].startCol = placedWords[k].col - minCol

\* a returned puzzle of crossing words whose content was moved by the
\* compaction in both axes and is wider than high or higher than wide
C23_Witness ==
    /\ Returned
    /\ Len(placedWords) >= 3
    /\ LET cells == Filled(grid)
           minRow == SetMin({p[1] : p \in cells})
           maxRow == SetMax({p[1] : p \in cells})
           minCol == SetMin({p[2] : p \in cells})
           maxCol == SetMax({p[2] : p \in cells})
       IN  /\ minRow > 0
           /\ minCol > 0
           /\ maxRow - minRow # maxCol - minCol

(***************************************************************************)
(* C24: greedy, non-backtracking placement.  In every step of the          *)
(* placement loop a filled cell of the working grid keeps its letter, the  *)
(* records of the placed words are kept as they are, a pass of the retry   *)
(* loop and the step that drops a word leave the grid and the placed       *)
(* records unchanged, and the loop index never goes back: a dropped word   *)
(* is not attempted again.                                                 *)
(***************************************************************************)
C24_Step ==
    (pc \in {"while", "check"}) =>
       /\ DOMAIN grid' = DOMAIN grid
       /\ \A p \in Filled(grid) : grid'[p[1]][p[2]] = grid[p[1]][p[2]]
       /\ Len(placedWords') >= Len(placedWords)
       /\ \A k \in DOMAIN placedWords : placedWords'[k] = placedWords[k]
       /\ sortedWords' = sortedWords
       /\ i' \in {i, i + 1}
       /\ (i' = i) => (grid' = grid /\ placedWords' = placedWords)
       /\ (i' = i + 1 /\ bestPlacement = NoPlacement) =>
             (grid' = grid /\ placedWords' = placedWords)
       /\ (i' = i + 1 /\ bestPlacement # NoPlacement) =>
             /\ Len(placedWords') = Len(placedWords) + 1
             /\ placedWords'[Len(placedWords')].word = sortedWords[i + 1].word

C24_NoBacktracking == [][C24_Step]_vars

\* the loop has finished after dropping the second word and placing the
\* third
C24_Witness ==
    /\ pc = "check"
    /\ Len(sortedWords) >= 3
    /\ Len(placedWords) = 2
    /\ placedWords[2].word = sortedWords[3].word
    /\ sortedWords[2].word # sortedWords[3].word

(***************************************************************************)
(* C25: termination.  For every input list and every maxAttempts the call  *)
(* eventually returns; the retry loop of a word makes at most maxAttempts  *)
(* passes, exactly one when a placement is accepted, and the loop index    *)
(* stays within the sorted words.                                          *)
(***************************************************************************)
LiveLists == UNION {[1..n -> GreedyPool] : n \in 0..MaxWords}

InitLive ==
    /\ wordInputs \in LiveLists
    /\ maxAttempts \in MaxAttemptsChoices \cup {DefaultMaxAttempts}
    /\ minIntersections \in MinIntersectionsChoices
    /\ gridPadding = DefaultGridPadding
    /\ pc = "start"
    /\ normalizedWords = <<>>
    /\ sortedWords = <<>>
    /\ grid = <<>>
    /\ placedWords = <<>>
    /\ i = 0
    /\ attempts = 0
    /\ bestPlacement = NoPlacement
    /\ result = Pending
    /\ errorLog = "none"
    /\ StoreCreated

\* The call runs on one thread without awaiting anything: a step that is
\* enabled is eventually taken.  For PlaceAnchor, Attempt and Finish weak
\* fairness is written out with the guard of the action as its enabling
\* condition: their other conjuncts only assign the next values.
FairSteps ==
    /\ WF_vars(Normalize)
    /\ WF_vars(PlaceOrDrop)
    /\ []<>(pc # "anchor") \/ []<><<PlaceAnchor>>_vars
    /\ []<>(~(pc = "while" /\ attempts < maxAttempts
                           /\ bestPlacement = NoPlacement))
         \/ []<><<Attempt>>_vars
    /\ []<>(pc # "check") \/ []<><<Finish>>_vars

SpecLive == InitLive /\ [][Next]_vars /\ FairSteps

C25_PassesBounded ==
    /\ attempts <= maxAttempts
    /\ i <= Len(sortedWords)
    /\ (pc = "while") => (i < Len(sortedWords) /\ attempts >= 0)
    /\ (bestPlacement # NoPlacement) => (pc = "while" /\ attempts = 1)
    /\ Done => (result # Pending /\ attempts = 0)

C25_Termination == <>Done /\ []C25_PassesBounded

\* a call with the default fifty passes has returned after dropping a word
C25_Witness ==
    /\ Done
    /\ maxAttempts = DefaultMaxAttempts
    /\ Len(placedWords) >= 2
    /\ Len(placedWords) < Len(sortedWords)

Neighbours(p, q) ==
    \/ p[1] = q[1] /\ (p[2] = q[2] + 1 \/ q[2] = p[2] + 1)
    \/ p[2] = q[2] /\ (p[1] = q[1] + 1 \/ q[1] = p[1] + 1)

RECURSIVE ReachedFrom(_, _)
\* the cells of `cells` linked to a cell of `seen` through neighbours
ReachedFrom(seen, cells) ==
    LET more == {q \in cells \ seen : \E p \in seen : Neighbours(p, q)}
    IN  IF more = {} THEN seen ELSE ReachedFrom(seen \cup more, cells)

IsConnected(cells) ==
    cells = {} \/ ReachedFrom({CHOOSE p \in cells : TRUE}, cells) = cells

C27_Connectivity ==
    /\ AfterPlacement =>
         /\ IsConnected(Filled(grid))
         /\ \A k \in 2..Len(placedWords) :
               \E m \in 1..(k - 1) : \E p \in Filled(grid) :
                  /\ Covers(placedWords[k], p[1], p[2])
                  /\ Covers(placedWords[m], p[1], p[2])
    /\ Returned =>
         /\ IsConnected(Filled(result.grid))
         /\ Filled(result.grid) # {}

\* a returned puzzle of three words, the third one crossing only the second
C27_Witness ==
    /\ Returned
    /\ Len(placedWords) = 3
    /\ ~\E p \in Filled(grid) : /\ Covers(placedWords[3], p[1], p[2])
                                /\ Covers(placedWords[1], p[1], p[2])

(***************************************************************************)
(* C28: when the normalized input contains no word twice, two placed words *)
(* share a cell only if their directions differ, and then they share at    *)
(* most one cell; two placed words of one direction that share a cell are  *)
(* the same word, the later one lying on exactly the span of the earlier.  *)
(***************************************************************************)
SharedCells(v, w) ==
    {p \in Filled(grid) : Covers(v, p[1], p[2]) /\ Covers(w, p[1], p[2])}

NoWordTwice ==
    \A k, m \in DOMAIN normalizedWords :
       k # m => normalizedWords[k].word # normalizedWords[m].word

C28_SharingRule ==
    \A k, m \in DOMAIN placedWords :
       (k < m /\ SharedCells(placedWords[k], placedWords[m]) # {}) =>
          LET v == placedWords[k]
              w == placedWords[m]
          IN  /\ NoWordTwice => v.direction # w.direction
              /\ v.direction # w.direction =>
                    Cardinality(SharedCells(v, w)) = 1
              /\ v.direction = w.direction =>
                    /\ v.word = w.word
                    /\ v.row = w.row
                    /\ v.col = w.col

\* four different words are placed: crossing pairs, and two words of one
\* direction that share no cell
C28_Witness ==
    /\ pc = "check"
    /\ NoWordTwice
    /\ Len(placedWords) = 4
    /\ \E k, m \in DOMAIN placedWords :
          /\ k < m
          /\ placedWords[k].direction = placedWords[m].direction
          /\ SharedCells(placedWords[k], placedWords[m]) = {}
    /\ \E k, m \in DOMAIN placedWords :
          /\ k < m
          /\ SharedCells(placedWords[k], placedWords[m]) # {}

\* two copies of one word lie on the same span
C28_WitnessSameSpan ==
    /\ pc = "check"
    /\ \E k, m \in DOMAIN placedWords :
          /\ k < m
          /\ placedWords[k].direction = placedWords[m].direction
          /\ SharedCells(placedWords[k], placedWords[m]) # {}

(***************************************************************************)
(* validatePuzzle.  The errors array is modelled as the set of its         *)
(* messages, each message as the tuple of its template and its values.     *)
(***************************************************************************)
validatePuzzle(puzzle) ==
    LET words == puzzle.words
        R(w, k) == IF w.direction = "across" THEN w.startRow ELSE w.startRow + k
        C(w, k) == IF w.direction = "across" THEN w.startCol + k ELSE w.startCol
        \* check 1: all words placed correctly in the grid
        beyond == {<<"extends beyond grid bounds", words[n].number>> :
                     n \in {n \in DOMAIN words :
                              \E k \in 0..(Len(words[n].answer) - 1) :
                                 \/ R(words[n], k) >= puzzle.size
                                 \/ C(words[n], k) >= puzzle.size}}
        wrong  == {<<"has incorrect letter at position", words[x[1]].number, x[2]>> :
                     x \in {x \in (DOMAIN words) \X (0..(puzzle.size - 1)) :
                              /\ x[2] < Len(words[x[1]].answer)
                              /\ R(words[x[1]], x[2]) < puzzle.size
                              /\ C(words[x[1]], x[2]) < puzzle.size
                              /\ puzzle.grid[R(words[x[1]], x[2])]
                                            [C(words[x[1]], x[2])]
                                   # words[x[1]].answer[x[2] + 1]}}
        \* check 2: no duplicate clue numbers for different words
        numbers == {words[n].number : n \in DOMAIN words}
        With(num) == SelectSeq(words, LAMBDA w : w.number = num)
        many   == {<<"used by words", num, Len(With(num))>> :
                     num \in {num \in numbers : Len(With(num)) > 2}}
        apart  == {<<"used at different positions", num>> :
                     num \in {num \in numbers :
                                /\ Len(With(num)) = 2
                                /\ \/ With(num)[1].startRow # With(num)[2].startRow
                                   \/ With(num)[1].startCol # With(num)[2].startCol}}
        \* check 3: grid size matches
        dims   == IF \/ Cardinality(DOMAIN puzzle.grid) # puzzle.size
                     \/ Cardinality(DOMAIN puzzle.grid[0]) # puzzle.size
                  THEN {<<"Grid dimensions don't match size property">>}
                  ELSE {}
        errors == beyond \cup wrong \cup many \cup apart \cup dims
    IN  [valid |-> errors = {}, errors |-> errors]

(***************************************************************************)
(* C29: every puzzle returned by generateCrossword is accepted by          *)
(* validatePuzzle: valid is true and there are no errors.                  *)
(***************************************************************************)
C29_ReturnedPuzzleValidates ==
    Returned => /\ validatePuzzle(result).valid
                /\ validatePuzzle(result).errors = {}

(***************************************************************************)
(* The analytics store: track, flush and the completion of an insert.      *)
(* JavaScript runs each callback to its end or to its next await, so a     *)
(* step is: a track call, the part of a flush call before the await, or    *)
(* the part after it.  The periodic timer may call flush at any moment.    *)
(***************************************************************************)
BATCH_SIZE == 50

\* the number of events tracked in a run of the model
MaxTracked == 3

\* the number of events already pending when the run starts: none, or one
\* less than a full batch
InitialBacklogs == {0, BATCH_SIZE - 1}

generatorVars == <<wordInputs, maxAttempts, minIntersections, gridPadding,
                   pc, normalizedWords, sortedWords, grid, placedWords,
                   i, attempts, bestPlacement, result, errorLog>>

\* generateCrossword has not been called
GeneratorIdle ==
    /\ wordInputs = <<>>
    /\ maxAttempts = DefaultMaxAttempts
    /\ minIntersections = DefaultMinIntersections
    /\ gridPadding = DefaultGridPadding
    /\ pc = "start"
    /\ normalizedWords = <<>>
    /\ sortedWords = <<>>
    /\ grid = <<>>
    /\ placedWords = <<>>
    /\ i = 0
    /\ attempts = 0
    /\ bestPlacement = NoPlacement
    /\ result = Pending
    /\ errorLog = "none"

InitStore ==
    /\ GeneratorIdle
    /\ \E n \in InitialBacklogs :
          /\ events = [k \in 1..n |-> k]
          /\ tracked = n
    /\ inFlight = <<>>
    /\ inserted = <<>>
    /\ timeouts = 0

RemoveAt(seq, k) == SubSeq(seq, 1, k - 1) \o SubSeq(seq, k + 1, Len(seq))

\* flush without `set({ events: [] })`
flush_NoClear ==
    IF Len(events) = 0
    THEN UNCHANGED <<events, inFlight>>
    ELSE /\ events' = events
         /\ inFlight' = Append(inFlight, events)

\* lines 42-52: flush up to the await: nothing when no event is pending,
\* else the pending events are cleared and sent as one batch
flush ==
    IF Len(events) = 0
    THEN UNCHANGED <<events, inFlight>>
    ELSE /\ events' = <<>>
         /\ inFlight' = Append(inFlight, events)

\* lines 17-40: track appends a new event and schedules a flush when the
\* batch size is reached
Track ==
    /\ \/ tracked < MaxTracked
       \/ tracked >= BATCH_SIZE - 1 /\ tracked < BATCH_SIZE - 1 + MaxTracked
    /\ tracked' = tracked + 1
    /\ events' = Append(events, tracked + 1)
    /\ timeouts' = IF Len(events) + 1 >= BATCH_SIZE
                   THEN timeouts + 1 ELSE timeouts
    /\ UNCHANGED <<inFlight, inserted>>
    /\ UNCHANGED generatorVars

\* lines 10-12: the periodic timer calls flush
IntervalFlush ==
    /\ flush
    /\ UNCHANGED <<inserted, timeouts, tracked>>
    /\ UNCHANGED generatorVars

\* line 35: a setTimeout callback calls flush
TimeoutFlush ==
    /\ timeouts > 0
    /\ timeouts' = timeouts - 1
    /\ flush
    /\ UNCHANGED <<inserted, tracked>>
    /\ UNCHANGED generatorVars

\* lines 51-53 with error null: the batch is in the table
InsertSucceeds ==
    /\ \E k \in DOMAIN inFlight :
          /\ inserted' = inserted \o inFlight[k]
          /\ inFlight' = RemoveAt(inFlight, k)
    /\ UNCHANGED <<events, timeouts, tracked>>
    /\ UNCHANGED generatorVars

\* lines 55-67: the insert returned an error (lines 55-60) or threw (lines
\* 62-67); both handlers put the batch back in front of the pending events
InsertFails ==
    /\ \E k \in DOMAIN inFlight :
          /\ events' = inFlight[k] \o events
          /\ inFlight' = RemoveAt(inFlight, k)
    /\ UNCHANGED <<inserted, timeouts, tracked>>
    /\ UNCHANGED generatorVars

NextStore ==
    \/ Track
    \/ IntervalFlush
    \/ TimeoutFlush
    \/ InsertSucceeds
    \/ InsertFails

SpecStore == InitStore /\ [][NextStore]_vars

(***************************************************************************)
(* C30: under any interleaving of track calls, flush calls and insert      *)
(* completions every tracked event is at all times in exactly one of: the  *)
(* pending events, exactly one batch in flight, or the inserted rows, and  *)
(* nothing else is in any of them; a batch that fails is put back in front *)
(* of the events that are pending at that moment.                          *)
(***************************************************************************)
RECURSIVE CountIn(_, _)
\* the number of occurrences of e in the sequence seq
CountIn(seq, e) ==
    IF Len(seq) = 0 THEN 0
    ELSE (IF Head(seq) = e THEN 1 ELSE 0) + CountIn(Tail(seq), e)

RECURSIVE CountInBatches(_, _)
CountInBatches(batches, e) ==
    IF Len(batches) = 0 THEN 0
    ELSE CountIn(Head(batches), e) + CountInBatches(Tail(batches), e)

C30_ExactlyOnePlace ==
    /\ \A e \in 1..tracked :
          CountIn(events, e) + CountInBatches(inFlight, e)
            + CountIn(inserted, e) = 1
    /\ \A k \in DOMAIN events : events[k] \in 1..tracked
    /\ \A k \in DOMAIN inserted : inserted[k] \in 1..tracked
    /\ \A k \in DOMAIN inFlight : \A n \in DOMAIN inFlight[k] :
          inFlight[k][n] \in 1..tracked
    /\ \A k \in DOMAIN inFlight : Len(inFlight[k]) > 0

C30_FailedBatchInFront ==
    (Len(inFlight') < Len(inFlight) /\ inserted' = inserted) =>
       \E k \in DOMAIN inFlight :
          /\ Len(events') = Len(inFlight[k]) + Len(events)
          /\ SubSeq(events', 1, Len(inFlight[k])) = inFlight[k]
          /\ SubSeq(events', Len(inFlight[k]) + 1, Len(events')) = events
          /\ inFlight' = RemoveAt(inFlight, k)

C30_NoEventLostOrDuplicated ==
    []C30_ExactlyOnePlace /\ [][C30_FailedBatchInFront]_vars

\* two batches failed in the order opposite to their sending while a third
\* event was inserted or is still in flight
C30_Witness ==
    /\ \E a, b \in DOMAIN events : a < b /\ events[a] > events[b]
    /\ Len(inserted) + Len(inFlight) >= 1

====
